---- MODULE Spec2Model ----
(***************************************************************************)
(* Model of tabbycat/adjfeedback/models.py: feedback questions, the five   *)
(* answer tables and the AdjudicatorFeedback submission record.            *)
(*                                                                         *)
(* Numeric field values (FloatField min_value / max_value) are represented *)
(* in halves: the model integer v stands for the Python number v/2, so     *)
(* that int() is a real truncation and not the identity.                   *)
(***************************************************************************)
EXTENDS Integers, Sequences, FiniteSets, TLC

\* A nullable field holds NULL (None) or Some(value).
NULL == <<>>
Some(x) == <<x>>
ValueOf(field) == field[1]

\* ------------------------------------------------------------------ bounds
ScaleBelow == 3
ScaleHi == 100
MaxStrLen == 1
MaxChoices == 2
FieldHi == 1
NumAdjs == 2
NumDebates == 2
NumTeams == 2
NumRounds == 1
MaxWeight == 2
MaxFeedbacks == 3
NumQuestions == 2
NumFeedbacks == 2
MaxAnswers == 2

\* ------------------------------------------------- Python number helpers
\* Truncating division (Python int() applied to the quotient a / b, b > 0).
TruncDiv(a, b) == IF a >= 0 THEN a \div b ELSE -((-a) \div b)

\* int(x) on a number given in halves; the result is a plain integer.
PyInt(h) == TruncDiv(h, 2)

\* list(range(start, stop, step)) for step > 0.
PyRange(start, stop, step) ==
    LET n == IF stop > start THEN (stop - start + step - 1) \div step ELSE 0
    IN  [i \in 1..n |-> start + (i - 1) * step]

\* A scale that aims at a hundred steps instead of ten.
StepFractionHundred(diff) == IF 100 > diff THEN <<1, 1>> ELSE <<diff, 100>>

\* max(a / 10, 1) where the first argument is the true quotient diff / 10:
\* kept as the fraction <<numerator, denominator>>. Python's max returns its
\* first argument unless a later one is strictly greater.
StepFraction(diff) ==
    IF 10 > diff THEN <<1, 1>> ELSE <<diff, 10>>

\* The scale with the range stopping at int(max_value), not int(max_value + 1).
construct_number_scale_exclusive(minv, maxv) ==
    LET step  == StepFraction(PyInt(maxv) - PyInt(minv))
        istep == TruncDiv(step[1], step[2])
    IN  PyRange(PyInt(minv), PyInt(maxv), istep)

\* AdjudicatorFeedbackQuestion.construct_number_scale; arguments in halves.
construct_number_scale(minv, maxv) ==
    LET step  == StepFraction(PyInt(maxv) - PyInt(minv))
        istep == TruncDiv(step[1], step[2])
    IN  PyRange(PyInt(minv), PyInt(maxv + 2), istep)

\* ------------------------------------------------------ strings and escape
\* A string is a sequence of characters.
Alphabet == {"a", "<", "&"}

RECURSIVE SeqsUpTo(_, _)
SeqsUpTo(S, n) ==
    IF n = 0 THEN {<<>>}
    ELSE LET shorter == SeqsUpTo(S, n - 1)
         IN  shorter \cup {Append(t, x) : t \in shorter, x \in S}

Strings == SeqsUpTo(Alphabet, MaxStrLen)

\* django.utils.html.escape on one character.
EscapeChar(c) ==
    CASE c = "&"  -> <<"&", "a", "m", "p", ";">>
      [] c = "<"  -> <<"&", "l", "t", ";">>
      [] c = ">"  -> <<"&", "g", "t", ";">>
      [] c = "\"" -> <<"&", "q", "u", "o", "t", ";">>
      [] c = "'"  -> <<"&", "#", "x", "2", "7", ";">>
      [] OTHER    -> <<c>>

RECURSIVE escape(_)
escape(str) ==
    IF str = <<>> THEN <<>> ELSE EscapeChar(Head(str)) \o escape(Tail(str))

\* Python values held in the serialized dictionary, tagged with their type.
StrVal(x)  == [kind |-> "str", val |-> x]
IntVal(x)  == [kind |-> "int", val |-> x]
BoolVal(x) == [kind |-> "bool", val |-> x]
ListVal(of, xs) == [kind |-> "list", of |-> of, val |-> xs]
FloatVal(x) == [kind |-> "float", val |-> x]

\* ------------------------------------------------------------ AnswerType
BOOLEAN_CHECKBOX == "bc"
BOOLEAN_SELECT   == "bs"
INTEGER_TEXTBOX  == "i"
INTEGER_SCALE    == "is"
FLOAT            == "f"
TEXT             == "t"
LONGTEXT         == "tl"
SINGLE_SELECT    == "ss"
MULTIPLE_SELECT  == "ms"

AnswerType ==
    {BOOLEAN_CHECKBOX, BOOLEAN_SELECT, INTEGER_TEXTBOX, INTEGER_SCALE, FLOAT,
     TEXT, LONGTEXT, SINGLE_SELECT, MULTIPLE_SELECT}

\* --------------------------------------------------------- answer tables
AdjudicatorFeedbackBooleanAnswer == "AdjudicatorFeedbackBooleanAnswer"
AdjudicatorFeedbackIntegerAnswer == "AdjudicatorFeedbackIntegerAnswer"
AdjudicatorFeedbackFloatAnswer   == "AdjudicatorFeedbackFloatAnswer"
AdjudicatorFeedbackStringAnswer  == "AdjudicatorFeedbackStringAnswer"
AdjudicatorFeedbackManyAnswer    == "AdjudicatorFeedbackManyAnswer"

\* The concrete subclasses of AdjudicatorFeedbackAnswer.
AnswerClasses ==
    {AdjudicatorFeedbackBooleanAnswer, AdjudicatorFeedbackIntegerAnswer,
     AdjudicatorFeedbackFloatAnswer, AdjudicatorFeedbackStringAnswer,
     AdjudicatorFeedbackManyAnswer}

\* ANSWER_TYPE of the mixin of each answer class.
ANSWER_TYPE(cls) ==
    CASE cls = AdjudicatorFeedbackBooleanAnswer -> "bool"
      [] cls = AdjudicatorFeedbackIntegerAnswer -> "int"
      [] cls = AdjudicatorFeedbackFloatAnswer   -> "float"
      [] cls = AdjudicatorFeedbackStringAnswer  -> "str"
      [] cls = AdjudicatorFeedbackManyAnswer    -> "list"

ANSWER_CLASSES ==
    (BOOLEAN_CHECKBOX :> AdjudicatorFeedbackBooleanAnswer) @@
    (BOOLEAN_SELECT   :> AdjudicatorFeedbackBooleanAnswer) @@
    (INTEGER_TEXTBOX  :> AdjudicatorFeedbackIntegerAnswer) @@
    (INTEGER_SCALE    :> AdjudicatorFeedbackIntegerAnswer) @@
    (FLOAT            :> AdjudicatorFeedbackFloatAnswer) @@
    (TEXT             :> AdjudicatorFeedbackStringAnswer) @@
    (LONGTEXT         :> AdjudicatorFeedbackStringAnswer) @@
    (SINGLE_SELECT    :> AdjudicatorFeedbackStringAnswer) @@
    (MULTIPLE_SELECT  :> AdjudicatorFeedbackManyAnswer)

\* The reverse dictionary without the entry of the multiple-select table.
ANSWER_CLASSES_REVERSE_no_many ==
    << [cls |-> AdjudicatorFeedbackStringAnswer,
        types |-> <<TEXT, LONGTEXT, SINGLE_SELECT>>],
       [cls |-> AdjudicatorFeedbackIntegerAnswer,
        types |-> <<INTEGER_SCALE, INTEGER_TEXTBOX>>],
       [cls |-> AdjudicatorFeedbackFloatAnswer, types |-> <<FLOAT>>],
       [cls |-> AdjudicatorFeedbackBooleanAnswer,
        types |-> <<BOOLEAN_SELECT, BOOLEAN_CHECKBOX>>] >>

\* The dictionary, in the order of its keys.
ANSWER_CLASSES_REVERSE ==
    << [cls |-> AdjudicatorFeedbackStringAnswer,
        types |-> <<TEXT, LONGTEXT, SINGLE_SELECT>>],
       [cls |-> AdjudicatorFeedbackManyAnswer, types |-> <<MULTIPLE_SELECT>>],
       [cls |-> AdjudicatorFeedbackIntegerAnswer,
        types |-> <<INTEGER_SCALE, INTEGER_TEXTBOX>>],
       [cls |-> AdjudicatorFeedbackFloatAnswer, types |-> <<FLOAT>>],
       [cls |-> AdjudicatorFeedbackBooleanAnswer,
        types |-> <<BOOLEAN_SELECT, BOOLEAN_CHECKBOX>>] >>

\* AdjudicatorFeedbackQuestion.answer_type_class
answer_type_class(type) == ANSWER_CLASSES[type]

\* The rows of one answer table that belong to a feedback, as the
\* {question, answer} entries of get_answers(), in the order of the rows.
RECURSIVE EntriesOf(_, _)
EntriesOf(rows, f) ==
    IF rows = <<>> THEN <<>>
    ELSE LET row == Head(rows)
         IN  (IF row.feedback = f
              THEN <<[question |-> row.question, answer |-> row.answer]>>
              ELSE <<>>) \o EntriesOf(Tail(rows), f)

RECURSIVE AllEntries(_)
AllEntries(rows) ==
    IF rows = <<>> THEN <<>>
    ELSE <<[question |-> Head(rows).question, answer |-> Head(rows).answer]>>
            \o AllEntries(Tail(rows))

RECURSIVE ScanTables(_, _, _)
ScanTables(keys, f, tabs) ==
    IF keys = <<>> THEN <<>>
    ELSE EntriesOf(tabs[Head(keys).cls], f) \o ScanTables(Tail(keys), f, tabs)

RECURSIVE ScanWholeTables(_, _)
ScanWholeTables(keys, tabs) ==
    IF keys = <<>> THEN <<>>
    ELSE AllEntries(tabs[Head(keys).cls]) \o ScanWholeTables(Tail(keys), tabs)

\* get_answers() reading the whole tables instead of the feedback's rows.
get_answers_unfiltered(f, tabs) == ScanWholeTables(ANSWER_CLASSES_REVERSE, tabs)

\* AdjudicatorFeedback.get_answers; tabs[cls] holds the rows of the table of
\* cls, which the feedback reaches through its <cls name lowercased>_set.
get_answers(f, tabs) == ScanTables(ANSWER_CLASSES_REVERSE, f, tabs)

\* ----------------------------------------------------------- the question
\* AdjudicatorFeedbackQuestion.choices_for_number_scale
choices_for_number_scale(q) ==
    construct_number_scale(ValueOf(q.min_value), ValueOf(q.max_value))

SerializeBase(q) ==
    ("text" :> StrVal(escape(q.text))) @@ ("seq" :> IntVal(q.seq)) @@
    ("type" :> StrVal(q.answer_type)) @@ ("required" :> StrVal(q.answer_type)) @@
    ("from_team" :> BoolVal(q.from_team)) @@ ("from_adj" :> BoolVal(q.from_adj))

EscapedChoices(q) ==
    ListVal("str", [i \in 1..Len(q.choices) |-> escape(q.choices[i])])

\* serialize() testing the numeric bounds before the choices.
serialize_scale_first(q) ==
    IF q.min_value # NULL /\ q.max_value # NULL
    THEN SerializeBase(q) @@
         ("choice_options" :> ListVal("int", choices_for_number_scale(q)))
    ELSE IF Len(q.choices) > 0
    THEN SerializeBase(q) @@ ("choice_options" :> EscapedChoices(q))
    ELSE SerializeBase(q)

\* serialize() with 'required' holding the boolean required flag.
serialize_required_flag(q) ==
    LET fixed == [SerializeBase(q) EXCEPT !["required"] = BoolVal(q.required)]
    IN  IF Len(q.choices) > 0
        THEN fixed @@ ("choice_options" :> EscapedChoices(q))
        ELSE IF q.min_value # NULL /\ q.max_value # NULL
        THEN fixed @@ ("choice_options" :> ListVal("int", choices_for_number_scale(q)))
        ELSE fixed

\* AdjudicatorFeedbackQuestion.serialize
serialize(q) ==
    IF Len(q.choices) > 0
    THEN SerializeBase(q) @@ ("choice_options" :> EscapedChoices(q))
    ELSE IF q.min_value # NULL /\ q.max_value # NULL
    THEN SerializeBase(q) @@
         ("choice_options" :> ListVal("int", choices_for_number_scale(q)))
    ELSE SerializeBase(q)

\* ----------------------------------------------------------- the feedback
Adjs    == 1..NumAdjs
Debates == 1..NumDebates
Teams   == 1..NumTeams
Rounds  == 1..NumRounds

\* Outcomes of a call: a returned value or a raised exception.
Returned(x) == [kind |-> "return", val |-> x]
Raised(x)   == [kind |-> "raise", val |-> x]

\* AdjudicatorFeedback.debate: the debate of whichever source is set.
debate(f) ==
    IF f.source_adjudicator # NULL THEN Some(ValueOf(f.source_adjudicator).debate)
    ELSE IF f.source_team # NULL THEN Some(ValueOf(f.source_team).debate)
    ELSE NULL

\* AdjudicatorFeedback.round: self.debate.round; None has no attribute round.
round(f, rounds) ==
    IF debate(f) = NULL THEN Raised("AttributeError")
    ELSE Returned(rounds[ValueOf(debate(f))])

\* AdjudicatorFeedback.feedback_weight
feedback_weight(f, rounds, weights) ==
    LET r == round(f, rounds)
    IN  IF r.kind = "raise" THEN r
        ELSE IF r.val # NULL THEN Returned(weights[ValueOf(r.val)])
        ELSE Returned(1)

\* clean() without the test for two sources.
clean_one_source_test(f, panels) ==
    IF f.source_adjudicator = NULL /\ f.source_team = NULL
    THEN Raised("ValidationError: no source")
    ELSE IF f.adjudicator = NULL
    THEN Raised("ValidationError: no adjudicator")
    ELSE IF ValueOf(f.adjudicator) \notin panels[ValueOf(debate(f))]
    THEN Raised("ValidationError: did not see this debate")
    ELSE Returned("Submission.clean")

\* clean() without the panel membership test.
clean_no_panel_test(f, panels) ==
    IF f.source_adjudicator = NULL /\ f.source_team = NULL
    THEN Raised("ValidationError: no source")
    ELSE IF f.source_adjudicator # NULL /\ f.source_team # NULL
    THEN Raised("ValidationError: both sources")
    ELSE IF f.adjudicator = NULL
    THEN Raised("ValidationError: no adjudicator")
    ELSE Returned("Submission.clean")

\* AdjudicatorFeedback.clean; the last outcome is the call of the inherited
\* Submission.clean().
clean(f, panels) ==
    IF ~(f.source_adjudicator # NULL \/ f.source_team # NULL)
    THEN Raised("ValidationError: no source")
    ELSE IF f.source_adjudicator # NULL /\ f.source_team # NULL
    THEN Raised("ValidationError: both sources")
    ELSE IF ~(f.adjudicator # NULL)
    THEN Raised("ValidationError: no adjudicator")
    ELSE IF ValueOf(f.adjudicator) \notin panels[ValueOf(debate(f))]
    THEN Raised("ValidationError: did not see this debate")
    ELSE Returned("Submission.clean")

\* Submission._unique_unconfirm_args: the fields of unique_together other
\* than the version, with the values they have on this submission.
super_unique_unconfirm_args(f) ==
    [k \in {"adjudicator", "source_adjudicator", "source_team"} |-> f[k]]

\* The key with the adjudicator always kept.
unique_unconfirm_args_keep(f, preference) == super_unique_unconfirm_args(f)

\* AdjudicatorFeedback._unique_unconfirm_args; preference is
\* source_team.debate.round.tournament.pref('feedback_from_teams').
unique_unconfirm_args(f, preference) ==
    LET kwargs == super_unique_unconfirm_args(f)
    IN  IF f.source_team # NULL /\ preference = "orallist"
        THEN [k \in DOMAIN kwargs \ {"adjudicator"} |-> kwargs[k]]
        ELSE kwargs

\* Rows selected by objects.filter(**kwargs).
Matches(row, kwargs) == \A k \in DOMAIN kwargs : row[k] = kwargs[k]

RECURSIVE MaxVersion(_, _)
MaxVersion(rows, kwargs) ==
    IF rows = <<>> THEN 0
    ELSE LET rest == MaxVersion(Tail(rows), kwargs)
             row  == Head(rows)
         IN  IF Matches(row, kwargs) /\ row.version > rest THEN row.version ELSE rest

\* ------------------------------------------------------------- variables
VARIABLES min_value, max_value, options, pc, question, serialized,
          adjudicators, debate_round, round_weight, feedback,
          clean_result, weight_result,
          feedbacks, pref, unconfirm_args,
          answer_type, tables, answers, answers_of

vars == <<min_value, max_value, options, pc, question, serialized,
          adjudicators, debate_round, round_weight, feedback,
          clean_result, weight_result,
          feedbacks, pref, unconfirm_args,
          answer_type, tables, answers, answers_of>>

answerVars == <<answer_type, tables, answers, answers_of>>

QuestionIds == 1..NumQuestions
FeedbackIds == 1..NumFeedbacks

IdleAnswers ==
    /\ answer_type = [q \in QuestionIds |-> TEXT]
    /\ tables = [cls \in AnswerClasses |-> <<>>]
    /\ answers = <<>>
    /\ answers_of = NULL

versionVars == <<feedbacks, pref, unconfirm_args>>

IdleVersions == feedbacks = <<>> /\ pref = "all-adjs" /\ unconfirm_args = NULL

worldVars == <<adjudicators, debate_round, round_weight>>
cleanVars == <<worldVars, feedback, clean_result, weight_result>>

IdleClean ==
    /\ adjudicators = [d \in Debates |-> {}]
    /\ debate_round = [d \in Debates |-> NULL]
    /\ round_weight = [r \in Rounds |-> 1]
    /\ feedback = NULL
    /\ clean_result = NULL
    /\ weight_result = NULL

scaleVars == <<min_value, max_value, options>>
questionVars == <<question, serialized>>

\* Variables of the operations a specification does not exercise.
IdleScale == min_value = 0 /\ max_value = 0 /\ options = <<>>
IdleQuestion == question = NULL /\ serialized = NULL

\* ---------------------------------------------- number scale specification
ScaleValues == (-2 * ScaleBelow)..(2 * ScaleHi)

InitScale ==
    /\ min_value \in ScaleValues
    /\ max_value \in ScaleValues
    /\ options = <<>>
    /\ pc = "start"
    /\ IdleQuestion
    /\ IdleClean
    /\ IdleVersions
    /\ IdleAnswers

CallConstructNumberScale ==
    /\ pc = "start"
    /\ options' = construct_number_scale(min_value, max_value)
    /\ pc' = "done"
    /\ UNCHANGED <<min_value, max_value, questionVars, cleanVars, versionVars, answerVars>>

NextScale == CallConstructNumberScale

SpecScale == InitScale /\ [][NextScale]_vars

IsWhole(h) == h % 2 = 0

Max2(a, b) == IF a >= b THEN a ELSE b

\* C3: for integers min <= max the result is min, min+step, ... (all <= max)
\* with step = max(floor((max-min)/10), 1).
C3_ScaleIsStepSequence ==
    (pc = "done" /\ IsWhole(min_value) /\ IsWhole(max_value) /\ min_value <= max_value) =>
        LET lo   == min_value \div 2
            hi   == max_value \div 2
            step == Max2((hi - lo) \div 10, 1)
        IN  /\ \A i \in 1..Len(options) :
                  options[i] = lo + (i - 1) * step /\ options[i] <= hi
            /\ lo + Len(options) * step > hi
            /\ (lo = 1 /\ hi = 10) => options = <<1, 2, 3, 4, 5, 6, 7, 8, 9, 10>>
            /\ (lo = 0 /\ hi = 100) =>
                  options = <<0, 10, 20, 30, 40, 50, 60, 70, 80, 90, 100>>

C3_Witness ==
    pc = "done" /\ min_value = 0 /\ max_value = 200 /\ Len(options) = 11

\* C4 as stated: the scale starts at min, ends at max and has at most 11
\* elements (at most 10 steps).
C4_AsStated ==
    (pc = "done" /\ IsWhole(min_value) /\ IsWhole(max_value) /\ min_value <= max_value) =>
        /\ Len(options) >= 1
        /\ Len(options) <= 11
        /\ options[1] = min_value \div 2
        /\ options[Len(options)] = max_value \div 2

\* C4 amended: the scale is evenly spaced, starts at min, ends less than one
\* step below or at max, and has at most 20 elements.
C4_ScaleShape ==
    (pc = "done" /\ IsWhole(min_value) /\ IsWhole(max_value) /\ min_value <= max_value) =>
        LET lo   == min_value \div 2
            hi   == max_value \div 2
            n    == Len(options)
        IN  /\ n >= 1
            /\ n <= 20
            /\ options[1] = lo
            /\ \E step \in 1..(hi - lo + 1) :
                  /\ \A i \in 1..(n - 1) : options[i + 1] - options[i] = step
                  /\ options[n] <= hi
                  /\ options[n] > hi - step

\* a scale that does not end at max and has more than 11 elements
C4_Witness ==
    /\ pc = "done" /\ min_value = 0 /\ max_value = 38
    /\ Len(options) = 20 /\ options[20] = 19

\* ------------------------------------------------ question specification
FieldValues == {NULL} \cup {Some(v) : v \in 0..(2 * FieldHi)}

Questions ==
    [text : Strings, seq : {1}, answer_type : AnswerType, required : BOOLEAN,
     from_team : BOOLEAN, from_adj : BOOLEAN,
     min_value : FieldValues, max_value : FieldValues,
     choices : SeqsUpTo(Strings, MaxChoices)]

InitQuestion ==
    /\ question \in Questions
    /\ serialized = NULL
    /\ pc = "start"
    /\ IdleScale
    /\ IdleClean
    /\ IdleVersions
    /\ IdleAnswers

CallSerialize ==
    /\ pc = "start"
    /\ serialized' = serialize(question)
    /\ pc' = "done"
    /\ UNCHANGED <<question, scaleVars, cleanVars, versionVars, answerVars>>

NextQuestion == CallSerialize

SpecQuestion == InitQuestion /\ [][NextQuestion]_vars

\* C6: non-empty choices give the escaped choices in order and never the
\* number scale; empty choices with both bounds set give the number scale;
\* empty choices with a bound unset give no choice_options key.
C6_ChoiceOptions ==
    pc = "done" =>
        LET hasKey == "choice_options" \in DOMAIN serialized
            n      == Len(question.choices)
        IN  /\ n > 0 =>
                  /\ hasKey
                  /\ serialized["choice_options"].of = "str"
                  /\ Len(serialized["choice_options"].val) = n
                  /\ \A i \in 1..n : serialized["choice_options"].val[i]
                                          = escape(question.choices[i])
            /\ (n = 0 /\ question.min_value # NULL /\ question.max_value # NULL) =>
                  /\ hasKey
                  /\ serialized["choice_options"].of = "int"
                  /\ serialized["choice_options"].val
                         = construct_number_scale(ValueOf(question.min_value),
                                                  ValueOf(question.max_value))
            /\ (n = 0 /\ (question.min_value = NULL \/ question.max_value = NULL)) =>
                  ~hasKey

\* choices containing a character that escape rewrites, with both bounds set
C6_Witness ==
    /\ pc = "done"
    /\ question.choices = << <<"a">>, <<"<">> >>
    /\ question.min_value = Some(0) /\ question.max_value = Some(2)
    /\ serialized["choice_options"].val = << <<"a">>, <<"&", "l", "t", ";">> >>

\* C9: the 'required' entry of serialize() is the answer-type code, the same
\* value as the 'type' entry, whatever the required flag is.
C9_RequiredIsTypeCode ==
    pc = "done" =>
        /\ serialized["required"].kind = "str"
        /\ serialized["required"].val = question.answer_type
        /\ serialized["required"] = serialized["type"]

C9_Witness ==
    /\ pc = "done"
    /\ question.required = FALSE
    /\ question.answer_type = INTEGER_SCALE
    /\ serialized["required"] = StrVal("is")

\* ------------------------------------------------ validation specification
\* adjudicators[d] is debate.adjudicators, the panel of debate d; a
\* DebateAdjudicator row exists for each panel member.
DebateAdjudicators(panels) ==
    {[adjudicator |-> a, debate |-> d] : a \in Adjs, d \in Debates}
        \ {da \in [adjudicator : Adjs, debate : Debates] :
                da.adjudicator \notin panels[da.debate]}

DebateTeams == [team : Teams, debate : Debates]

Option(S) == {NULL} \cup {Some(x) : x \in S}

InitClean ==
    /\ adjudicators \in [Debates -> SUBSET Adjs]
    /\ debate_round \in [Debates -> Option(Rounds)]
    /\ round_weight \in [Rounds -> {0, MaxWeight}]
    /\ feedback \in [adjudicator : Option(Adjs),
                     source_adjudicator : Option(DebateAdjudicators(adjudicators)),
                     source_team : Option(DebateTeams)]
    /\ clean_result = NULL
    /\ weight_result = NULL
    /\ pc = "start"
    /\ IdleScale
    /\ IdleQuestion
    /\ IdleVersions
    /\ IdleAnswers

CallClean ==
    /\ clean_result = NULL
    /\ clean_result' = clean(feedback, adjudicators)
    /\ UNCHANGED <<worldVars, feedback, weight_result, pc, scaleVars, questionVars, versionVars, answerVars>>

CallFeedbackWeight ==
    /\ weight_result = NULL
    /\ weight_result' = feedback_weight(feedback, debate_round, round_weight)
    /\ UNCHANGED <<worldVars, feedback, clean_result, pc, scaleVars, questionVars, versionVars, answerVars>>

NextClean == CallClean \/ CallFeedbackWeight

SpecClean == InitClean /\ [][NextClean]_vars

IsValidationError(result) ==
    result.kind = "raise" /\ result.val \in
        {"ValidationError: no source", "ValidationError: both sources",
         "ValidationError: no adjudicator", "ValidationError: did not see this debate"}

\* C1: clean() raises a validation error when neither source is set and when
\* both are set; whenever it returns, exactly one source is non-null.
C1_ExactlyOneSource ==
    clean_result # NULL =>
        /\ (feedback.source_adjudicator = NULL /\ feedback.source_team = NULL)
              => IsValidationError(clean_result)
        /\ (feedback.source_adjudicator # NULL /\ feedback.source_team # NULL)
              => IsValidationError(clean_result)
        /\ clean_result.kind = "return"
              => (feedback.source_adjudicator = NULL) # (feedback.source_team = NULL)

\* both sources set, the target on the panel of both debates: clean() raised
C1_Witness ==
    /\ clean_result # NULL
    /\ feedback.source_adjudicator # NULL /\ feedback.source_team # NULL
    /\ feedback.adjudicator # NULL
    /\ \A d \in Debates : ValueOf(feedback.adjudicator) \in adjudicators[d]
    /\ clean_result = Raised("ValidationError: both sources")

SourceDebate(f) ==
    IF f.source_adjudicator # NULL THEN ValueOf(f.source_adjudicator).debate
    ELSE ValueOf(f.source_team).debate

\* C2: with exactly one source set, clean() raises a validation error when
\* the target adjudicator is unset or not on the panel of the source's
\* debate, and reaches Submission.clean() only for a target on that panel.
C2_TargetOnPanel ==
    (clean_result # NULL
       /\ (feedback.source_adjudicator = NULL) # (feedback.source_team = NULL)) =>
        /\ feedback.adjudicator = NULL => IsValidationError(clean_result)
        /\ (feedback.adjudicator # NULL
              /\ ValueOf(feedback.adjudicator) \notin adjudicators[SourceDebate(feedback)])
              => IsValidationError(clean_result)
        /\ clean_result = Returned("Submission.clean")
              => /\ feedback.adjudicator # NULL
                 /\ ValueOf(feedback.adjudicator) \in adjudicators[SourceDebate(feedback)]

\* a team's feedback on an adjudicator who sat on another debate only
C2_Witness ==
    /\ clean_result = Raised("ValidationError: did not see this debate")
    /\ feedback.source_team # NULL
    /\ \E d \in Debates : ValueOf(feedback.adjudicator) \in adjudicators[d]

\* C8: feedback_weight never fails; it is the configured weight of the round
\* of the source's debate, and 1 when the feedback has no round, a feedback
\* without a source included.
C8_FeedbackWeight ==
    weight_result # NULL =>
        /\ weight_result.kind = "return"
        /\ LET hasSource == feedback.source_adjudicator # NULL \/ feedback.source_team # NULL
               r == IF hasSource THEN debate_round[SourceDebate(feedback)] ELSE NULL
           IN  weight_result.val = IF r # NULL THEN round_weight[ValueOf(r)] ELSE 1

\* ------------------------------------------------ versioning specification
\* Values of the tournament preference 'feedback_from_teams'.
FeedbackFromTeams == {"orallist", "all-adjs", "no-one"}

\* Submissions come from the first debate: from its first panellist or from
\* one of its teams. Every debate has a round of the tournament, which line
\* 270 dereferences unconditionally.
Submissions ==
    [adjudicator : {Some(a) : a \in Adjs},
     source_adjudicator : Option({[adjudicator |-> 1, debate |-> 1]}),
     source_team : Option({[team |-> t, debate |-> 1] : t \in Teams}),
     confirmed : BOOLEAN]

InitVersions ==
    /\ feedbacks = <<>>
    /\ pref \in FeedbackFromTeams
    /\ unconfirm_args = NULL
    /\ adjudicators = [d \in Debates |-> Adjs]
    /\ debate_round = [d \in Debates |-> Some(1)]
    /\ round_weight = [r \in Rounds |-> 1]
    /\ feedback = NULL
    /\ clean_result = NULL
    /\ weight_result = NULL
    /\ pc = "start"
    /\ IdleScale
    /\ IdleQuestion
    /\ IdleAnswers

\* Submission.save() of a new feedback: a confirmed submission unconfirms
\* the confirmed rows found by its _unique_unconfirm_args(), and the version
\* is one more than the highest version with the same unique fields.
Save(f) ==
    /\ Len(feedbacks) < MaxFeedbacks
    /\ LET kwargs  == unique_unconfirm_args(f, pref)
           version == MaxVersion(feedbacks, super_unique_unconfirm_args(f)) + 1
           others  == IF f.confirmed
                      THEN [i \in 1..Len(feedbacks) |->
                              IF feedbacks[i].confirmed /\ Matches(feedbacks[i], kwargs)
                              THEN [feedbacks[i] EXCEPT !.confirmed = FALSE]
                              ELSE feedbacks[i]]
                      ELSE feedbacks
       IN  /\ feedbacks' = Append(others,
                 [adjudicator |-> f.adjudicator,
                  source_adjudicator |-> f.source_adjudicator,
                  source_team |-> f.source_team,
                  confirmed |-> f.confirmed, version |-> version])
           /\ unconfirm_args' = IF f.confirmed THEN kwargs ELSE NULL
    /\ UNCHANGED <<pref, worldVars, feedback, clean_result, weight_result, pc,
                   scaleVars, questionVars, answerVars>>

NextVersions == \E f \in Submissions : Save(f)

SpecVersions == InitVersions /\ [][NextVersions]_vars

LastSaved == feedbacks[Len(feedbacks)]

\* C7: the key that finds the versions to unconfirm is the base key with the
\* target adjudicator, except for a team's feedback under 'orallist', where
\* only the adjudicator is removed; then the saved feedback unconfirms the
\* team's earlier feedback on any adjudicator. Feedback from an adjudicator
\* always has the adjudicator in the key.
C7_UnconfirmKey ==
    (feedbacks # <<>> /\ LastSaved.confirmed) =>
        LET f      == LastSaved
            oral   == f.source_team # NULL /\ pref = "orallist"
            others == 1..(Len(feedbacks) - 1)
        IN  /\ DOMAIN unconfirm_args =
                  IF oral THEN {"source_adjudicator", "source_team"}
                  ELSE {"adjudicator", "source_adjudicator", "source_team"}
            /\ \A k \in DOMAIN unconfirm_args : unconfirm_args[k] = f[k]
            /\ f.source_team = NULL => "adjudicator" \in DOMAIN unconfirm_args
            /\ oral => \A i \in others :
                  (/\ feedbacks[i].source_team = f.source_team
                   /\ feedbacks[i].source_adjudicator = f.source_adjudicator)
                      => ~feedbacks[i].confirmed

\* under 'orallist' a team's confirmed feedback on one adjudicator was
\* unconfirmed by its later feedback on another adjudicator
C7_Witness ==
    /\ pref = "orallist"
    /\ Len(feedbacks) >= 2
    /\ LastSaved.confirmed /\ LastSaved.source_team # NULL
    /\ LastSaved.source_adjudicator = NULL
    /\ \E i \in 1..(Len(feedbacks) - 1) :
          /\ feedbacks[i].source_team = LastSaved.source_team
          /\ feedbacks[i].source_adjudicator = NULL
          /\ feedbacks[i].adjudicator # LastSaved.adjudicator
          /\ ~feedbacks[i].confirmed
          /\ feedbacks[i].version = 1 /\ LastSaved.version = 1

\* --------------------------------------------------- answers specification
\* Answer values a form can store in the table of each class.
AnswerValues(cls) ==
    CASE cls = AdjudicatorFeedbackBooleanAnswer -> {BoolVal(TRUE), BoolVal(FALSE)}
      [] cls = AdjudicatorFeedbackIntegerAnswer -> {IntVal(3)}
      [] cls = AdjudicatorFeedbackFloatAnswer   -> {FloatVal(5)}
      [] cls = AdjudicatorFeedbackStringAnswer  -> {StrVal(<<"a">>)}
      [] cls = AdjudicatorFeedbackManyAnswer    -> {ListVal("str", << <<"a">> >>)}

RECURSIVE SumLen(_, _)
SumLen(tabs, classes) ==
    IF classes = {} THEN 0
    ELSE LET cls == CHOOSE c \in classes : TRUE
         IN  Len(tabs[cls]) + SumLen(tabs, classes \ {cls})

InitAnswers ==
    /\ answer_type \in [QuestionIds -> AnswerType]
    /\ tables = [cls \in AnswerClasses |-> <<>>]
    /\ answers = <<>>
    /\ answers_of = NULL
    /\ pc = "start"
    /\ IdleScale
    /\ IdleQuestion
    /\ IdleClean
    /\ IdleVersions

\* An answer to question q on feedback f is stored in the table of the
\* question's answer_type_class; unique_together rejects a second row of
\* the same question and feedback in that table.
InsertAnswer(q, f) ==
    /\ pc = "start"
    /\ SumLen(tables, AnswerClasses) < MaxAnswers
    /\ LET cls == answer_type_class(answer_type[q])
       IN  /\ ~\E i \in 1..Len(tables[cls]) :
                   tables[cls][i].question = q /\ tables[cls][i].feedback = f
           /\ \E v \in AnswerValues(cls) :
                   tables' = [tables EXCEPT ![cls] =
                       Append(@, [question |-> q, feedback |-> f, answer |-> v])]
    /\ UNCHANGED <<answer_type, answers, answers_of, pc,
                   scaleVars, questionVars, cleanVars, versionVars>>

\* The answer_type field of a question is edited.
ChangeAnswerType(q, type) ==
    /\ pc = "start"
    /\ type # answer_type[q]
    /\ answer_type' = [answer_type EXCEPT ![q] = type]
    /\ UNCHANGED <<tables, answers, answers_of, pc,
                   scaleVars, questionVars, cleanVars, versionVars>>

CallGetAnswers(f) ==
    /\ pc = "start"
    /\ answers' = get_answers(f, tables)
    /\ answers_of' = Some(f)
    /\ pc' = "done"
    /\ UNCHANGED <<answer_type, tables, scaleVars, questionVars, cleanVars, versionVars>>

NextAnswers ==
    \/ \E q \in QuestionIds, f \in FeedbackIds : InsertAnswer(q, f)
    \/ \E q \in QuestionIds, type \in AnswerType : ChangeAnswerType(q, type)
    \/ \E f \in FeedbackIds : CallGetAnswers(f)

SpecAnswers == InitAnswers /\ [][NextAnswers]_vars

\* Rows of feedback f on question q in the table of cls.
RowsOf(cls, q, f) ==
    {i \in 1..Len(tables[cls]) :
        tables[cls][i].question = q /\ tables[cls][i].feedback = f}

EntriesFor(q) == {i \in 1..Len(answers) : answers[i].question = q}

EntriesForIn(q, cls) ==
    {i \in EntriesFor(q) : answers[i].answer.kind = ANSWER_TYPE(cls)}

\* No answer row of the feedback is omitted.
NoRowOmitted(f) ==
    \A cls \in AnswerClasses : \A i \in 1..Len(tables[cls]) :
        tables[cls][i].feedback = f =>
            \E j \in EntriesForIn(tables[cls][i].question, cls) :
                answers[j].answer = tables[cls][i].answer

\* Every entry is an answer row of the feedback.
NoForeignEntry(f) ==
    \A j \in 1..Len(answers) :
        \E cls \in AnswerClasses : \E i \in RowsOf(cls, answers[j].question, f) :
            /\ tables[cls][i].answer.kind = answers[j].answer.kind
            /\ tables[cls][i].answer = answers[j].answer

\* C5 as stated: get_answers() returns exactly one entry per (question,
\* feedback) pair that has an answer in any of the five tables, none of
\* another feedback, and omits no answer row of the feedback.
C5_AsStated ==
    pc = "done" =>
        LET f == ValueOf(answers_of)
        IN  /\ \A q \in QuestionIds :
                  Cardinality(EntriesFor(q)) =
                      IF \E cls \in AnswerClasses : RowsOf(cls, q, f) # {} THEN 1 ELSE 0
            /\ NoRowOmitted(f)
            /\ NoForeignEntry(f)

\* C5 amended: get_answers() returns exactly one entry per answer row of the
\* feedback over the five tables, none of another feedback and none
\* omitted: one entry per (question, feedback, table), and exactly one per
\* (question, feedback) pair whose answers are in a single table.
C5_OneEntryPerRow ==
    pc = "done" =>
        LET f == ValueOf(answers_of)
        IN  /\ \A q \in QuestionIds : \A cls \in AnswerClasses :
                  /\ Cardinality(EntriesForIn(q, cls)) = Cardinality(RowsOf(cls, q, f))
                  /\ Cardinality(RowsOf(cls, q, f)) <= 1
            /\ \A q \in QuestionIds :
                  Cardinality({cls \in AnswerClasses : RowsOf(cls, q, f) # {}}) = 1
                      => Cardinality(EntriesFor(q)) = 1
            /\ NoRowOmitted(f)
            /\ NoForeignEntry(f)

\* a question answered in two tables after its answer_type changed
C5_Witness ==
    /\ pc = "done"
    /\ Len(answers) = 2
    /\ answers[1].question = answers[2].question
    /\ answers[1].answer.kind # answers[2].answer.kind

RECURSIVE SeqToSet(_)
SeqToSet(seq) == IF seq = <<>> THEN {} ELSE {Head(seq)} \cup SeqToSet(Tail(seq))

ReverseKeys == {ANSWER_CLASSES_REVERSE[i].cls : i \in 1..Len(ANSWER_CLASSES_REVERSE)}

\* C10: ANSWER_CLASSES maps each of the nine answer types to one of the five
\* answer tables, ANSWER_CLASSES_REVERSE is its exact inverse, so
\* answer_type_class is defined for every question and get_answers() scans
\* every table that holds answers.
C10_DispatchConsistent ==
    /\ DOMAIN ANSWER_CLASSES = AnswerType
    /\ Cardinality(AnswerType) = 9
    /\ \A t \in AnswerType : ANSWER_CLASSES[t] \in AnswerClasses
    /\ ReverseKeys = AnswerClasses
    /\ Len(ANSWER_CLASSES_REVERSE) = 5
    /\ \A i \in 1..Len(ANSWER_CLASSES_REVERSE) :
          LET entry == ANSWER_CLASSES_REVERSE[i]
          IN  /\ SeqToSet(entry.types) = {t \in AnswerType : ANSWER_CLASSES[t] = entry.cls}
              /\ Cardinality(SeqToSet(entry.types)) = Len(entry.types)
    /\ \A q \in QuestionIds : answer_type[q] \in DOMAIN ANSWER_CLASSES
    /\ \A cls \in AnswerClasses : tables[cls] # <<>> => cls \in ReverseKeys
    /\ pc = "done" =>
          Len(answers) = Cardinality({<<cls, i>> \in AnswerClasses \X (1..MaxAnswers + 1) :
                i <= Len(tables[cls]) /\ tables[cls][i].feedback = ValueOf(answers_of)})

\* get_answers() returned a multiple-select answer and a boolean answer
C10_Witness ==
    /\ pc = "done"
    /\ \E i, j \in 1..Len(answers) :
          answers[i].answer.kind = "list" /\ answers[j].answer.kind = "bool"
====
